---- MODULE Spec2Model ----
(***************************************************************************)
(* Model of conductor/manus_conductor.py (class ManusCondor): the track    *)
(* registry tracks.md, the tracks directory and the per-track plan.md.     *)
(* A text is a sequence of one-character strings, so that formatting,      *)
(* splitting and regular-expression matching are computed character by     *)
(* character as the Python code computes them.                             *)
(***************************************************************************)
EXTENDS Integers, Sequences, FiniteSets, TLC

VARIABLES conductor_dir, code_styleguides, state_file, tracks_file,
          tracks_dir, last, created, procs, overlapped, expected

vars == <<conductor_dir, code_styleguides, state_file, tracks_file,
          tracks_dir, last, created, procs, overlapped, expected>>

(***************************************************************************)
(* Bounds                                                                  *)
(***************************************************************************)
\* number of create_track calls that may succeed in one behaviour
MaxTracks == 2

(***************************************************************************)
(* Characters and primitive text operations                                *)
(***************************************************************************)
\* characters matched by \s and removed by str.strip(); VT stands for \v
Whitespace == {" ", "\t", "\n", "\r", "\f", "<VT>"}

\* the status markers the grammar accepts, [ ~x]
Markers == {" ", "~", "x"}

DigitChars == <<"0","1","2","3","4","5","6","7","8","9">>

IsDigit(c) == \E k \in 1..10 : DigitChars[k] = c

DigitVal(c) == (CHOOSE k \in 1..10 : DigitChars[k] = c) - 1

AsciiLetters ==
    {"a","b","c","d","e","f","g","h","i","j","k","l","m","n","o","p","q","r",
     "s","t","u","v","w","x","y","z","A","B","C","D","E","F","G","H","I","J",
     "K","L","M","N","O","P","Q","R","S","T","U","V","W","X","Y","Z"}

\* s[i:] of Python, with i a 1-based index
From(s, i) == SubSeq(s, i, Len(s))

\* s.startswith(lit, i-1)
StartsWith(s, lit, i) ==
    /\ i + Len(lit) - 1 <= Len(s)
    /\ \A k \in 1..Len(lit) : s[i + k - 1] = lit[k]

\* the least element of a non-empty set of integers
Min(S) == CHOOSE x \in S : \A y \in S : x <= y

\* s.find(lit, i-1) + 1 : first index >= i where lit occurs, 0 if none
Find(s, lit, i) ==
    LET ps == {p \in i..(Len(s) - Len(lit) + 1) :
                  s[p] = lit[1] /\ StartsWith(s, lit, p)}
    IN  IF ps = {} THEN 0 ELSE Min(ps)

\* s.split(sep) for a non-empty separator: cut at the occurrences of sep,
\* leftmost first, an occurrence overlapping the previous cut being skipped
RECURSIVE SplitAt(_, _, _, _)
SplitAt(s, sep, occurrences, i) ==
    LET later == {p \in occurrences : p >= i}
    IN  IF later = {} THEN <<From(s, i)>>
        ELSE <<SubSeq(s, i, Min(later) - 1)>>
             \o SplitAt(s, sep, occurrences, Min(later) + Len(sep))

Split(s, sep) ==
    SplitAt(s, sep, {p \in 1..(Len(s) - Len(sep) + 1) :
                        s[p] = sep[1] /\ StartsWith(s, sep, p)}, 1)

\* first index >= i whose character is not whitespace (Len(s)+1 if none):
\* the end of a greedy \s* started at i
SkipWS(s, i) ==
    IF i > Len(s) THEN i
    ELSE CHOOSE p \in i..(Len(s) + 1) :
            /\ p = Len(s) + 1 \/ s[p] \notin Whitespace
            /\ \A q \in i..(p - 1) : s[q] \in Whitespace

\* first index >= i holding a newline (Len(s)+1 if none): the end of a
\* greedy .+ started at i
EndOfLine(s, i) ==
    LET ps == {p \in i..Len(s) : s[p] = "\n"}
    IN  IF i > Len(s) THEN i
        ELSE IF ps = {} THEN Len(s) + 1
        ELSE Min(ps)

\* last index <= i whose character is not whitespace (0 if none)
LastNonWS(s, i) ==
    IF i < 1 THEN 0
    ELSE CHOOSE p \in 0..i :
            /\ p = 0 \/ s[p] \notin Whitespace
            /\ \A q \in (p + 1)..i : s[q] \in Whitespace

\* str.strip()
Strip(s) == SubSeq(s, SkipWS(s, 1), LastNonWS(s, Len(s)))

\* int(digits)
RECURSIVE ParseInt(_)
ParseInt(ds) ==
    IF ds = <<>> THEN 0
    ELSE 10 * ParseInt(SubSeq(ds, 1, Len(ds) - 1)) + DigitVal(ds[Len(ds)])

\* str(n) for n >= 0
RECURSIVE Decimal(_)
Decimal(n) ==
    IF n < 10 THEN <<DigitChars[n + 1]>>
    ELSE Decimal(n \div 10) \o <<DigitChars[(n % 10) + 1]>>

\* f"{n:03d}"
Pad3(n) ==
    LET d == Decimal(n)
    IN  IF Len(d) >= 3 THEN d
        ELSE [k \in 1..(3 - Len(d)) |-> "0"] \o d

(***************************************************************************)
(* Literal texts of the source                                             *)
(***************************************************************************)
\* "# Tracks\n\nThis file contains all tracks for the project.\n"
HeaderText ==
    <<"#"," ","T","r","a","c","k","s","\n","\n","T","h","i","s"," ","f","i",
      "l","e"," ","c","o","n","t","a","i","n","s"," ","a","l","l"," ","t","r",
      "a","c","k","s"," ","f","o","r"," ","t","h","e"," ","p","r","o","j","e",
      "c","t",".","\n">>

\* "---"
Separator == <<"-","-","-">>

\* "\n---\n\n## [ ] Track: "
EntryHead ==
    <<"\n","-","-","-","\n","\n","#","#"," ","["," ","]"," ","T","r","a","c",
      "k",":"," ">>

\* "\n\n**Folder:** [conductor/tracks/"
EntryFolder ==
    <<"\n","\n","*","*","F","o","l","d","e","r",":","*","*"," ","[","c","o",
      "n","d","u","c","t","o","r","/","t","r","a","c","k","s","/">>

\* "](conductor/tracks/"
EntryLink ==
    <<"]","(","c","o","n","d","u","c","t","o","r","/","t","r","a","c","k","s",
      "/">>

\* ")\n\n"
EntryTail == <<")","\n","\n">>

\* "[conductor/tracks/"
FolderOpen ==
    <<"[","c","o","n","d","u","c","t","o","r","/","t","r","a","c","k","s","/">>

\* "track-"
TrackPrefix == <<"t","r","a","c","k","-">>

\* "##", "-", "Track:", "Task:"
HeadingLead == <<"#","#">>
TaskLead == <<"-">>
TrackKeyword == <<"T","r","a","c","k",":">>
TaskKeyword == <<"T","a","s","k",":">>

(***************************************************************************)
(* Files                                                                   *)
(***************************************************************************)
NoFile == [exists |-> FALSE, text |-> <<>>]

File(t) == [exists |-> TRUE, text |-> t]

\* Optional values: None is the empty sequence, a value v is <<v>>
None == <<>>

Some(v) == <<v>>

(***************************************************************************)
(* Status maps                                                             *)
(***************************************************************************)
\* status_map of parse_tracks / parse_plan: marker -> status name
StatusOfMarker(c) ==
    CASE c = " " -> "pending"
      [] c = "~" -> "in_progress"
      [] c = "x" -> "completed"
      [] OTHER   -> "pending"

\* status_map.get(new_status, ' ') of update_track_status / update_task_status
MarkerOfStatus(s) ==
    CASE s = "pending"     -> " "
      [] s = "in_progress" -> "~"
      [] s = "completed"   -> "x"
      [] OTHER             -> " "

(***************************************************************************)
(* Regular expressions of the source                                       *)
(***************************************************************************)
\* One attempt, anchored at index i, of the patterns of the shape
\*     <lead>\s*\[([ ~x])\]\s*<keyword>\s*(.+)
\* (heading of parse_tracks, task and subtask lines of parse_plan).  Each \s*
\* is greedy; the last one gives characters back until .+ finds a character
\* other than a newline.  group2 runs to the end of the line.
MatchItemAt(s, i, lead, keyword) ==
    LET a  == i + Len(lead)
        b  == SkipWS(s, a)
        c  == SkipWS(s, b + 3)
        d  == IF keyword = <<>> THEN b + 3 ELSE c + Len(keyword)
        e  == SkipWS(s, d)
        qs == {q \in d..e : q <= Len(s) /\ s[q] # "\n"}
        ok == /\ StartsWith(s, lead, i)
              /\ b + 2 <= Len(s)
              /\ s[b] = "["
              /\ s[b + 1] \in Markers
              /\ s[b + 2] = "]"
              /\ StartsWith(s, keyword, c)
              /\ qs # {}
    IN  IF ~ok THEN [ok |-> FALSE, marker |-> " ", group2 |-> <<>>]
        ELSE LET q == CHOOSE x \in qs : \A y \in qs : y <= x
             IN  [ok |-> TRUE, marker |-> s[b + 1],
                  group2 |-> SubSeq(s, q, EndOfLine(s, q) - 1)]

\* re.search of the pattern above: the leftmost index at which it matches
SearchItem(s, i, lead, keyword) ==
    LET ps == {p \in i..Len(s) :
                  s[p] = lead[1] /\ MatchItemAt(s, p, lead, keyword).ok}
    IN  IF ps = {} THEN [ok |-> FALSE, marker |-> " ", group2 |-> <<>>]
        ELSE MatchItemAt(s, Min(ps), lead, keyword)

\* One attempt, anchored at index i, of the patterns of the shape
\*     <lead>\s*\[[ ~x]\]\s*<keyword>\s*<re.escape(text)>
\* (update_track_status, update_task_status).  Returns the index after the
\* match, 0 when there is no match at i.
MatchUpdateAt(s, i, lead, keyword, text) ==
    LET a  == i + Len(lead)
        b  == SkipWS(s, a)
        c  == SkipWS(s, b + 3)
        d  == c + Len(keyword)
        e  == SkipWS(s, d)
        qs == {q \in d..e : StartsWith(s, text, q)}
        ok == /\ StartsWith(s, lead, i)
              /\ b + 2 <= Len(s)
              /\ s[b] = "["
              /\ s[b + 1] \in Markers
              /\ s[b + 2] = "]"
              /\ StartsWith(s, keyword, c)
              /\ qs # {}
    IN  IF ~ok THEN 0
        ELSE (CHOOSE x \in qs : \A y \in qs : y <= x) + Len(text)

\* re.search(r'\[conductor/tracks/([^\]]+)\]', s): group 1 of the leftmost
\* match, None when there is none
RECURSIVE SearchFolder(_, _)
SearchFolder(s, i) ==
    LET p == Find(s, FolderOpen, i)
        j == p + Len(FolderOpen)
        r == Find(s, <<"]">>, j)
    IN  IF p = 0 THEN None
        ELSE IF r > j THEN Some(SubSeq(s, j, r - 1))
        ELSE SearchFolder(s, p + 1)

\* re.search(r'track-(\d+)', name): int(group 1) of the leftmost match
DigitsEnd(s, i) ==
    IF i > Len(s) THEN i
    ELSE CHOOSE p \in i..(Len(s) + 1) :
            /\ p = Len(s) + 1 \/ ~IsDigit(s[p])
            /\ \A q \in i..(p - 1) : IsDigit(s[q])

RECURSIVE SearchTrackNumber(_, _)
SearchTrackNumber(name, i) ==
    LET p == Find(name, TrackPrefix, i)
        j == p + Len(TrackPrefix)
        r == DigitsEnd(name, j)
    IN  IF p = 0 THEN None
        ELSE IF r > j THEN Some(ParseInt(SubSeq(name, j, r - 1)))
        ELSE SearchTrackNumber(name, p + 1)

(***************************************************************************)
(* re.sub                                                                  *)
(***************************************************************************)
\* The replacement string of re.sub is a template: re.sub expands its
\* backslash escapes before it searches, and raises re.error on a bad one.
\* The pattern has no group, so every group reference is an error; \g needs
\* a following "<", a character no text of this model contains.  BEL, BS and
\* VT stand for \a, \b and \v, OCT for the character of an octal escape.
IsOctal(c) == IsDigit(c) /\ DigitVal(c) <= 7

RECURSIVE ExpandTemplate(_, _)
ExpandTemplate(t, i) ==
    LET p == Find(t, <<"\\">>, i)
    IN  IF p = 0 THEN [ok |-> TRUE, text |-> From(t, i)]
        ELSE IF p = Len(t) THEN [ok |-> FALSE, text |-> <<>>]
        ELSE
            LET c  == t[p + 1]
                o1 == p + 2 <= Len(t) /\ IsOctal(t[p + 2])
                o2 == o1 /\ p + 3 <= Len(t) /\ IsOctal(t[p + 3])
                Then(cs, n) ==
                    LET r == ExpandTemplate(t, p + n)
                    IN  [ok |-> r.ok,
                         text |-> SubSeq(t, i, p - 1) \o cs \o r.text]
                Error == [ok |-> FALSE, text |-> <<>>]
            IN  CASE c = "g"  -> Error
                  [] c = "0"  ->
                        Then(<<"<OCT>">>, IF o2 THEN 4 ELSE IF o1 THEN 3 ELSE 2)
                  [] IsDigit(c) /\ c # "0" ->
                        IF IsOctal(c) /\ o2 /\ DigitVal(c) <= 3
                        THEN Then(<<"<OCT>">>, 4)
                        ELSE Error
                  [] c = "\\" -> Then(<<"\\">>, 2)
                  [] c = "n"  -> Then(<<"\n">>, 2)
                  [] c = "t"  -> Then(<<"\t">>, 2)
                  [] c = "r"  -> Then(<<"\r">>, 2)
                  [] c = "f"  -> Then(<<"\f">>, 2)
                  [] c = "v"  -> Then(<<"<VT>">>, 2)
                  [] c = "a"  -> Then(<<"<BEL>">>, 2)
                  [] c = "b"  -> Then(<<"<BS>">>, 2)
                  [] OTHER    -> IF c \in AsciiLetters THEN Error
                                 ELSE Then(<<"\\", c>>, 2)

\* every non-overlapping match, leftmost first, replaced by repl (count=0);
\* starts holds the indices at which the pattern matches
RECURSIVE ReplaceAll(_, _, _, _, _, _, _)
ReplaceAll(s, i, starts, lead, keyword, text, repl) ==
    LET later == {p \in starts : p >= i}
    IN  IF later = {} THEN From(s, i)
        ELSE SubSeq(s, i, Min(later) - 1) \o repl
             \o ReplaceAll(s, MatchUpdateAt(s, Min(later), lead, keyword, text),
                           starts, lead, keyword, text, repl)

\* re.sub(<lead>\s*\[[ ~x]\]\s*<keyword>\s* + re.escape(text), template, s)
ReSub(s, lead, keyword, text, template) ==
    LET r == ExpandTemplate(template, 1)
    IN  IF ~r.ok THEN [ok |-> FALSE, text |-> s]
        ELSE [ok |-> TRUE,
              text |-> ReplaceAll(s, 1,
                          {p \in 1..Len(s) :
                              /\ s[p] = lead[1]
                              /\ MatchUpdateAt(s, p, lead, keyword, text) > 0},
                          lead, keyword, text, r.text)]

(***************************************************************************)
(* Track registry: tracks.md                                               *)
(***************************************************************************)
\* track_entry of add_track_to_registry
TrackEntry(track_id, description) ==
    EntryHead \o description \o EntryFolder \o track_id \o EntryLink
    \o track_id \o EntryTail

\* the registry file after add_track_to_registry
AddTrackToRegistry(file, track_id, description) ==
    IF file.exists
    THEN File(file.text \o TrackEntry(track_id, description))
    ELSE File(HeaderText \o TrackEntry(track_id, description))

\* the body of the loop of parse_tracks: the track of one section, if any
ParseSection(section) ==
    LET heading_match == SearchItem(section, 1, HeadingLead, TrackKeyword)
        folder_match  == SearchFolder(section, 1)
    IN  IF ~heading_match.ok \/ folder_match = None THEN <<>>
        ELSE <<[id          |-> folder_match[1],
                description |-> Strip(heading_match.group2),
                status      |-> StatusOfMarker(heading_match.marker),
                folder      |-> Tail(FolderOpen) \o folder_match[1]]>>

RECURSIVE ParseSections(_, _)
ParseSections(sections, k) ==
    IF k > Len(sections) THEN <<>>
    ELSE ParseSection(sections[k]) \o ParseSections(sections, k + 1)

\* parse_tracks: sections[1:] of content.split("---"), in document order
ParseTracks(file) ==
    IF ~file.exists THEN <<>>
    ELSE ParseSections(Split(file.text, Separator), 2)

\* get_track_by_id: the first track with that id
RECURSIVE FirstWithId(_, _, _)
FirstWithId(tracks, k, track_id) ==
    IF k > Len(tracks) THEN None
    ELSE IF tracks[k].id = track_id THEN Some(tracks[k])
    ELSE FirstWithId(tracks, k + 1, track_id)

GetTrackById(file, track_id) == FirstWithId(ParseTracks(file), 1, track_id)

\* mutant of FirstNotCompleted: takes "not completed" to mean "pending"
RECURSIVE FirstPendingOnly(_, _)
FirstPendingOnly(items, k) ==
    IF k > Len(items) THEN None
    ELSE IF items[k].status = "pending" THEN Some(items[k])
    ELSE FirstPendingOnly(items, k + 1)

\* the loop of get_next_pending_track and of get_next_pending_task: the
\* first item whose status is not completed
RECURSIVE FirstNotCompleted(_, _)
FirstNotCompleted(items, k) ==
    IF k > Len(items) THEN None
    ELSE IF items[k].status # "completed" THEN Some(items[k])
    ELSE FirstNotCompleted(items, k + 1)

\* get_next_pending_track
GetNextPendingTrack(file) == FirstNotCompleted(ParseTracks(file), 1)

(***************************************************************************)
(* Tracks directory                                                        *)
(***************************************************************************)
\* An entry of conductor/tracks: a plain file, or a track directory with its
\* metadata.json, spec.md and plan.md.  created_at of metadata.json is the
\* wall clock and is left out.
NoMetadata == [exists |-> FALSE, id |-> <<>>, description |-> <<>>,
               status |-> ""]

PlainFile == [is_dir |-> FALSE, metadata |-> NoMetadata, spec |-> NoFile,
              plan |-> NoFile]

EmptyDir == [is_dir |-> TRUE, metadata |-> NoMetadata, spec |-> NoFile,
             plan |-> NoFile]

NoEntries == [n \in {} |-> PlainFile]

NoDir == [exists |-> FALSE, entries |-> NoEntries]

\* "track-001"
Track001 == <<"t","r","a","c","k","-","0","0","1">>

\* the numbers get_next_track_id collects from the directory names
TrackNumbers(names) ==
    {SearchTrackNumber(n, 1)[1] :
        n \in {m \in names : SearchTrackNumber(m, 1) # None}}

\* mutant of GetNextTrackId: the smallest unused number, so gaps are filled
GetNextTrackIdFillingGaps(dir) ==
    LET numbers == TrackNumbers({n \in DOMAIN dir.entries :
                                    dir.entries[n].is_dir})
    IN  TrackPrefix
        \o Pad3(Min({k \in 1..(Cardinality(numbers) + 1) : k \notin numbers}))

\* get_next_track_id
GetNextTrackId(dir) ==
    IF ~dir.exists THEN Track001
    ELSE
        LET existing_tracks == {n \in DOMAIN dir.entries : dir.entries[n].is_dir}
            numbers == TrackNumbers(existing_tracks)
        IN  IF existing_tracks = {} THEN Track001
            ELSE IF numbers # {}
            THEN TrackPrefix
                 \o Pad3((CHOOSE x \in numbers : \A y \in numbers : y <= x) + 1)
            ELSE Track001

\* the directory after track_dir.mkdir(exist_ok=True) and the three
\* write_text calls of create_track
WithTrack(dir, track_id, description, spec_content, plan_content) ==
    LET track == [is_dir   |-> TRUE,
                  metadata |-> [exists |-> TRUE, id |-> track_id,
                                description |-> description,
                                status |-> "pending"],
                  spec     |-> File(spec_content),
                  plan     |-> File(plan_content)]
    IN  [exists  |-> TRUE,
         entries |-> [n \in DOMAIN dir.entries \cup {track_id} |->
                         IF n = track_id THEN track ELSE dir.entries[n]]]

(***************************************************************************)
(* Task plan: conductor/tracks/<track_id>/plan.md                          *)
(***************************************************************************)
\* "## "
PhaseLead == <<"#","#"," ">>

\* plan_file of parse_plan and update_task_status; exists() is false when
\* the track directory is missing or is not a directory
PlanFile(dir, track_id) ==
    IF /\ dir.exists
       /\ track_id \in DOMAIN dir.entries
       /\ dir.entries[track_id].is_dir
    THEN dir.entries[track_id].plan
    ELSE NoFile

\* re.match(r'^\s{4}-\s*\[([ ~x])\]\s*(.+)', line)
MatchSubtask(line) ==
    IF Len(line) >= 4 /\ \A k \in 1..4 : line[k] \in Whitespace
    THEN MatchItemAt(line, 5, TaskLead, <<>>)
    ELSE [ok |-> FALSE, marker |-> " ", group2 |-> <<>>]

\* mutant of AppendSubtask: the subtask goes to the first task, tasks[0]
AppendSubtaskToFirst(tasks, subtask) ==
    [tasks EXCEPT ![1].subtasks = Append(@, subtask)]

\* tasks[-1]['subtasks'].append(subtask)
AppendSubtask(tasks, subtask) ==
    [tasks EXCEPT ![Len(tasks)].subtasks = Append(@, subtask)]

\* one iteration of the loop of parse_plan; acc holds tasks and
\* current_phase
ParsePlanLine(acc, line) ==
    LET task_match    == MatchItemAt(line, 1, TaskLead, TaskKeyword)
        subtask_match == MatchSubtask(line)
    IN  IF StartsWith(line, PhaseLead, 1)
        THEN [acc EXCEPT !.current_phase = Some(Strip(From(line, 4)))]
        ELSE IF task_match.ok
        THEN [acc EXCEPT !.tasks =
                 Append(@, [phase    |-> acc.current_phase,
                            task     |-> Strip(task_match.group2),
                            status   |-> StatusOfMarker(task_match.marker),
                            subtasks |-> <<>>])]
        ELSE IF subtask_match.ok /\ acc.tasks # <<>>
        THEN [acc EXCEPT !.tasks =
                 AppendSubtask(@,
                     [subtask |-> Strip(subtask_match.group2),
                      status  |-> StatusOfMarker(subtask_match.marker)])]
        ELSE acc

RECURSIVE ParsePlanLines(_, _, _)
ParsePlanLines(lines, k, acc) ==
    IF k > Len(lines) THEN acc
    ELSE ParsePlanLines(lines, k + 1, ParsePlanLine(acc, lines[k]))

\* parse_plan
ParsePlan(dir, track_id) ==
    LET plan_file == PlanFile(dir, track_id)
    IN  IF ~plan_file.exists THEN <<>>
        ELSE ParsePlanLines(Split(plan_file.text, <<"\n">>), 1,
                            [tasks |-> <<>>, current_phase |-> None]).tasks

\* mutant of GetNextPendingTask: a task counts as pending while one of its
\* subtasks is not completed
RECURSIVE FirstWithOpenWork(_, _)
FirstWithOpenWork(tasks, k) ==
    IF k > Len(tasks) THEN None
    ELSE IF \/ tasks[k].status # "completed"
            \/ \E j \in 1..Len(tasks[k].subtasks) :
                  tasks[k].subtasks[j].status # "completed"
         THEN Some(tasks[k])
         ELSE FirstWithOpenWork(tasks, k + 1)

GetNextPendingTaskWithSubtasks(dir, track_id) ==
    FirstWithOpenWork(ParsePlan(dir, track_id), 1)

\* get_next_pending_task
GetNextPendingTask(dir, track_id) ==
    FirstNotCompleted(ParsePlan(dir, track_id), 1)

\* the first task of the plan with that description (None if there is none)
RECURSIVE FirstWithTask(_, _, _)
FirstWithTask(tasks, k, task_description) ==
    IF k > Len(tasks) THEN None
    ELSE IF tasks[k].task = task_description THEN Some(tasks[k])
    ELSE FirstWithTask(tasks, k + 1, task_description)

\* the directory after plan_file.write_text(content)
WithPlan(dir, track_id, content) ==
    [dir EXCEPT !.entries[track_id].plan = File(content)]

(***************************************************************************)
(* Calls                                                                   *)
(***************************************************************************)
\* The last call: its name, its arguments, what it returned or raised,
\* whether it wrote tracks.md, and the track parse_tracks gave for track_id
\* just before the call.
Call(op, track_id, text, new_status, found, ret, raised, wrote) ==
    [op |-> op, track_id |-> track_id, text |-> text,
     new_status |-> new_status, found |-> found, ret |-> ret,
     raised |-> raised, wrote |-> wrote]

NoCall == Call("", <<>>, <<>>, "", None, None, "", FALSE)

(***************************************************************************)
(* Inputs                                                                  *)
(***************************************************************************)
\* "Login", "Login page", "a---b", "a\\n" (a, two backslashes, n)
Descriptions ==
    { <<"L","o","g","i","n">>,
      <<"L","o","g","i","n"," ","p","a","g","e">>,
      <<"a","-","-","-","b">>,
      <<"a","\\","\\","n">> }

\* "# spec", "# plan"
SpecContent == <<"#"," ","s","p","e","c">>

PlanContent == <<"#"," ","p","l","a","n">>

Statuses == {"pending", "in_progress", "completed"}

\* "Login", "Login page", "a---b": descriptions without a backslash
PlainDescriptions ==
    { <<"L","o","g","i","n">>,
      <<"L","o","g","i","n"," ","p","a","g","e">>,
      <<"a","-","-","-","b">> }

\* the ids a caller passes: track-001, track-002, track-003
TrackIds == {TrackPrefix \o Pad3(n) : n \in 1..3}

(***************************************************************************)
(* Processes                                                               *)
(***************************************************************************)
\* Two processes, each a ManusCondor on the same project root.  procs[p] is
\* where process p stands in the call it is running and the locals of that
\* call: the track id, the description, the new status, the text it read
\* from tracks.md (content) and the track get_track_by_id returned (found).
\* overlapped records that some call started while a call of the other
\* process was running; expected[id] is the status given by the last
\* update_track_status of a process that wrote tracks.md for track id.
Procs == {1, 2}

Idle == [pc |-> "idle", track_id |-> <<>>, description |-> <<>>,
         new_status |-> "", content |-> NoFile, found |-> None]

NoProcess ==
    /\ procs = [p \in Procs |-> Idle]
    /\ overlapped = FALSE
    /\ expected = [id \in {} |-> ""]

(***************************************************************************)
(* Operations                                                              *)
(***************************************************************************)
Init ==
    /\ conductor_dir = FALSE
    /\ code_styleguides = FALSE
    /\ state_file = [exists |-> FALSE, last_successful_step |-> ""]
    /\ tracks_file = NoFile
    /\ tracks_dir = NoDir
    /\ last = NoCall
    /\ created = <<>>
    /\ NoProcess

\* init_conductor_structure
InitConductorStructure ==
    /\ conductor_dir' = TRUE
    /\ tracks_dir' = IF tracks_dir.exists THEN tracks_dir
                     ELSE [exists |-> TRUE, entries |-> NoEntries]
    /\ code_styleguides' = TRUE
    /\ state_file' = IF state_file.exists THEN state_file
                     ELSE [exists |-> TRUE, last_successful_step |-> ""]
    /\ tracks_file' = IF tracks_file.exists THEN tracks_file
                      ELSE File(HeaderText \o <<"\n">>)
    /\ last' = Call("init_conductor_structure", <<>>, <<>>, "", None, None,
                    "", ~tracks_file.exists)
    /\ UNCHANGED <<created, procs, overlapped, expected>>

\* create_track: mkdir(exist_ok=True) has no parents=True, so it raises
\* FileNotFoundError when conductor/tracks is absent and FileExistsError when
\* the name is taken by a plain file; nothing has been written by then.
CreateTrack(description, spec_content, plan_content) ==
    LET track_id == GetNextTrackId(tracks_dir)
        raised ==
            IF ~tracks_dir.exists THEN "FileNotFoundError"
            ELSE IF /\ track_id \in DOMAIN tracks_dir.entries
                    /\ ~tracks_dir.entries[track_id].is_dir
                 THEN "FileExistsError"
                 ELSE ""
    IN  /\ Len(created) < MaxTracks
        /\ IF raised # ""
           THEN /\ last' = Call("create_track", <<>>, description, "", None,
                                None, raised, FALSE)
                /\ UNCHANGED <<tracks_dir, tracks_file, created>>
           ELSE /\ tracks_dir' = WithTrack(tracks_dir, track_id, description,
                                           spec_content, plan_content)
                /\ tracks_file' = AddTrackToRegistry(tracks_file, track_id,
                                                     description)
                /\ created' = Append(created, [id |-> track_id,
                                               description |-> description])
                /\ last' = Call("create_track", <<>>, description, "", None,
                                track_id, "", TRUE)
        /\ UNCHANGED <<conductor_dir, code_styleguides, state_file,
                   procs, overlapped, expected>>

\* parse_tracks
ParseTracksCall ==
    /\ last' = Call("parse_tracks", <<>>, <<>>, "", None,
                    ParseTracks(tracks_file), "", FALSE)
    /\ UNCHANGED <<conductor_dir, code_styleguides, state_file, tracks_file,
                   tracks_dir, created,
                   procs, overlapped, expected>>

\* get_next_pending_track
GetNextPendingTrackCall ==
    /\ last' = Call("get_next_pending_track", <<>>, <<>>, "", None,
                    GetNextPendingTrack(tracks_file), "", FALSE)
    /\ UNCHANGED <<conductor_dir, code_styleguides, state_file, tracks_file,
                   tracks_dir, created,
                   procs, overlapped, expected>>

\* get_next_track_id
GetNextTrackIdCall ==
    /\ last' = Call("get_next_track_id", <<>>, <<>>, "", None,
                    GetNextTrackId(tracks_dir), "", FALSE)
    /\ UNCHANGED <<conductor_dir, code_styleguides, state_file, tracks_file,
                   tracks_dir, created,
                   procs, overlapped, expected>>

\* update_track_status: read_text comes before the lookup, so a missing
\* tracks.md raises FileNotFoundError; re.sub raises re.error on a bad
\* escape in the new heading; write_text is reached only after both.
UpdateTrackStatus(track_id, new_status) ==
    LET status_char == MarkerOfStatus(new_status)
        found       == GetTrackById(tracks_file, track_id)
        description == found[1].description
        new_heading == <<"#","#"," ","[", status_char, "]"," ">>
                       \o TrackKeyword \o <<" ">> \o description
        result      == ReSub(tracks_file.text, HeadingLead, TrackKeyword,
                             description, new_heading)
    IN  /\ UNCHANGED <<conductor_dir, code_styleguides, state_file,
                       tracks_dir, created,
                   procs, overlapped, expected>>
        /\ IF ~tracks_file.exists
           THEN /\ last' = Call("update_track_status", track_id, <<>>,
                                new_status, found, None,
                                "FileNotFoundError", FALSE)
                /\ UNCHANGED tracks_file
           ELSE IF found = None
           THEN /\ last' = Call("update_track_status", track_id, <<>>,
                                new_status, found, None, "", FALSE)
                /\ UNCHANGED tracks_file
           ELSE IF ~result.ok
           THEN /\ last' = Call("update_track_status", track_id, <<>>,
                                new_status, found, None, "re.error", FALSE)
                /\ UNCHANGED tracks_file
           ELSE /\ tracks_file' = File(result.text)
                /\ last' = Call("update_track_status", track_id, <<>>,
                                new_status, found, None, "", TRUE)

\* parse_plan
ParsePlanCall(track_id) ==
    /\ last' = Call("parse_plan", track_id, <<>>, "", None,
                    ParsePlan(tracks_dir, track_id), "", FALSE)
    /\ UNCHANGED <<conductor_dir, code_styleguides, state_file, tracks_file,
                   tracks_dir, created,
                   procs, overlapped, expected>>

\* get_next_pending_task
GetNextPendingTaskCall(track_id) ==
    /\ last' = Call("get_next_pending_task", track_id, <<>>, "", None,
                    GetNextPendingTask(tracks_dir, track_id), "", FALSE)
    /\ UNCHANGED <<conductor_dir, code_styleguides, state_file, tracks_file,
                   tracks_dir, created,
                   procs, overlapped, expected>>

\* mutant of UpdateTaskStatus: once every task of the plan is completed the
\* heading of the track in tracks.md is marked completed as well
UpdateTaskStatusCompletingTrack(track_id, task_description, new_status) ==
    LET plan_file   == PlanFile(tracks_dir, track_id)
        status_char == MarkerOfStatus(new_status)
        found       == FirstWithTask(ParsePlan(tracks_dir, track_id), 1,
                                     task_description)
        new_task    == <<"-"," ","[", status_char, "]"," ">>
                       \o TaskKeyword \o <<" ">> \o task_description
        result      == ReSub(plan_file.text, TaskLead, TaskKeyword,
                             task_description, new_task)
        dir         == WithPlan(tracks_dir, track_id, result.text)
        tasks       == ParsePlan(dir, track_id)
        track       == GetTrackById(tracks_file, track_id)
        new_heading == <<"#","#"," ","[","x","]"," ">>
                       \o TrackKeyword \o <<" ">> \o track[1].description
        heading     == ReSub(tracks_file.text, HeadingLead, TrackKeyword,
                             track[1].description, new_heading)
    IN  /\ UNCHANGED <<conductor_dir, code_styleguides, state_file, created,
                   procs, overlapped, expected>>
        /\ last' = Call("update_task_status", track_id, task_description,
                        new_status, found, None, "", FALSE)
        /\ IF ~plan_file.exists \/ ~result.ok
           THEN UNCHANGED <<tracks_dir, tracks_file>>
           ELSE /\ tracks_dir' = dir
                /\ tracks_file' =
                      IF /\ tasks # <<>>
                         /\ \A k \in 1..Len(tasks) :
                               tasks[k].status = "completed"
                         /\ track # None
                         /\ heading.ok
                      THEN File(heading.text)
                      ELSE tracks_file

\* update_task_status: returns at once when plan.md does not exist; re.sub
\* raises re.error on a bad escape in the new task line; otherwise plan.md
\* is rewritten, whether or not the pattern matched.  found is the task
\* parse_plan gave for task_description just before the call.
UpdateTaskStatus(track_id, task_description, new_status) ==
    LET plan_file   == PlanFile(tracks_dir, track_id)
        status_char == MarkerOfStatus(new_status)
        found       == FirstWithTask(ParsePlan(tracks_dir, track_id), 1,
                                     task_description)
        new_task    == <<"-"," ","[", status_char, "]"," ">>
                       \o TaskKeyword \o <<" ">> \o task_description
        result      == ReSub(plan_file.text, TaskLead, TaskKeyword,
                             task_description, new_task)
    IN  /\ UNCHANGED <<conductor_dir, code_styleguides, state_file,
                       tracks_file, created,
                   procs, overlapped, expected>>
        /\ IF ~plan_file.exists
           THEN /\ last' = Call("update_task_status", track_id,
                                task_description, new_status, found, None,
                                "", FALSE)
                /\ UNCHANGED tracks_dir
           ELSE IF ~result.ok
           THEN /\ last' = Call("update_task_status", track_id,
                                task_description, new_status, found, None,
                                "re.error", FALSE)
                /\ UNCHANGED tracks_dir
           ELSE /\ tracks_dir' = WithPlan(tracks_dir, track_id, result.text)
                /\ last' = Call("update_task_status", track_id,
                                task_description, new_status, found, None,
                                "", FALSE)

Next ==
    \/ InitConductorStructure
    \/ \E d \in Descriptions : CreateTrack(d, SpecContent, PlanContent)
    \/ ParseTracksCall
    \/ GetNextPendingTrackCall
    \/ \E id \in TrackIds, s \in Statuses : UpdateTrackStatus(id, s)

\* every registry operation, with every description
Spec == Init /\ [][Next]_vars

NextCreate ==
    \/ InitConductorStructure
    \/ \E d \in Descriptions : CreateTrack(d, SpecContent, PlanContent)
    \/ ParseTracksCall
    \/ GetNextPendingTrackCall
    \/ GetNextTrackIdCall

\* a project on which init_conductor_structure, create_track and the
\* read-only queries are called, and no status is ever updated
SpecCreate == Init /\ [][NextCreate]_vars

NextPending ==
    \/ InitConductorStructure
    \/ \E d \in PlainDescriptions : CreateTrack(d, SpecContent, PlanContent)
    \/ GetNextPendingTrackCall
    \/ \E id \in TrackIds, s \in Statuses : UpdateTrackStatus(id, s)

\* create_track, update_track_status and get_next_pending_track
SpecPending == Init /\ [][NextPending]_vars

\* Names found in conductor/tracks when get_next_track_id runs: the track
\* directories track-001, track-003 and track-099, the directories notes
\* and old-track-007, and a plain file track-002.
DirectoryNames ==
    { <<"t","r","a","c","k","-","0","0","1">>,
      <<"t","r","a","c","k","-","0","0","3">>,
      <<"t","r","a","c","k","-","0","9","9">>,
      <<"n","o","t","e","s">>,
      <<"o","l","d","-","t","r","a","c","k","-","0","0","7">> }

PlainFileNames == { <<"t","r","a","c","k","-","0","0","2">> }

\* an initialized project whose tracks directory holds any of those names,
\* or a project that was never initialized
InitIds ==
    \/ Init
    \/ /\ conductor_dir = TRUE
       /\ code_styleguides = TRUE
       /\ state_file = [exists |-> TRUE, last_successful_step |-> ""]
       /\ tracks_file = File(HeaderText \o <<"\n">>)
       /\ \E names \in SUBSET (DirectoryNames \cup PlainFileNames) :
             tracks_dir = [exists  |-> TRUE,
                           entries |-> [n \in names |->
                                           IF n \in PlainFileNames
                                           THEN PlainFile ELSE EmptyDir]]
       /\ last = NoCall
       /\ created = <<>>
       /\ NoProcess

NextIds ==
    \/ InitConductorStructure
    \/ GetNextTrackIdCall
    \/ \E d \in {<<"L","o","g","i","n">>} :
          CreateTrack(d, SpecContent, PlanContent)

\* get_next_track_id and create_track on those directories
SpecIds == InitIds /\ [][NextIds]_vars

\* The lines a plan.md is made of
LinePhase1 == <<"#","#"," ","P","h","a","s","e"," ","1">>

LinePhase2 == <<"#","#"," ","P","h","a","s","e"," ","2">>

LineTaskLogin ==
    <<"-"," ","["," ","]"," ","T","a","s","k",":"," ","L","o","g","i","n">>

LineTaskLoginPage ==
    <<"-"," ","[","x","]"," ","T","a","s","k",":"," ","L","o","g","i","n"," ",
      "p","a","g","e">>

LineTaskDeploy ==
    <<"-"," ","[","~","]"," ","T","a","s","k",":"," ","D","e","p","l","o","y">>

\* four spaces, then "- [ ] Write tests"
LineSubtask ==
    <<" "," "," "," ","-"," ","["," ","]"," ","W","r","i","t","e"," ","t","e",
      "s","t","s">>

\* five spaces, then "- [x] Review"
LineFiveSpaces ==
    <<" "," "," "," "," ","-"," ","[","x","]"," ","R","e","v","i","e","w">>

PlanLines == {LinePhase1, LinePhase2, LineTaskLogin, LineTaskLoginPage,
              LineTaskDeploy, LineSubtask, LineFiveSpaces}

\* number of lines of a plan.md that is parsed
MaxPlanLines == 4

\* number of lines of a plan.md whose task statuses are updated
MaxTaskLines == 2

\* "Login", "Login page", "Deploy": the task descriptions a caller passes
TaskDescriptions ==
    { <<"L","o","g","i","n">>,
      <<"L","o","g","i","n"," ","p","a","g","e">>,
      <<"D","e","p","l","o","y">> }

\* track-001 has a plan.md, track-002 does not exist
PlanTrackIds == {TrackPrefix \o Pad3(n) : n \in 1..2}

\* the text of a plan.md with these lines, each ended by a newline
RECURSIVE PlanText(_)
PlanText(lines) ==
    IF lines = <<>> THEN <<>>
    ELSE Head(lines) \o <<"\n">> \o PlanText(Tail(lines))

\* sequences of at most n lines
LineSeqs(n) == UNION {[1..m -> PlanLines] : m \in 0..n}

\* the project after init_conductor_structure and
\* create_track("Login", SpecContent, PlanText(lines))
InitWithPlan(lines) ==
    /\ conductor_dir = TRUE
    /\ code_styleguides = TRUE
    /\ state_file = [exists |-> TRUE, last_successful_step |-> ""]
    /\ tracks_file = AddTrackToRegistry(File(HeaderText \o <<"\n">>),
                                        Track001, <<"L","o","g","i","n">>)
    /\ tracks_dir = WithTrack([exists |-> TRUE, entries |-> NoEntries],
                              Track001, <<"L","o","g","i","n">>,
                              SpecContent, PlanText(lines))
    /\ last = NoCall
    /\ created = <<[id |-> Track001, description |-> <<"L","o","g","i","n">>]>>
    /\ NoProcess

InitParsePlan == \E lines \in LineSeqs(MaxPlanLines) : InitWithPlan(lines)

NextParsePlan ==
    \/ \E id \in PlanTrackIds : ParsePlanCall(id)
    \/ \E id \in PlanTrackIds : GetNextPendingTaskCall(id)

\* parse_plan and get_next_pending_task on every plan of those lines
SpecParsePlan == InitParsePlan /\ [][NextParsePlan]_vars

InitTaskStatus == \E lines \in LineSeqs(MaxTaskLines) : InitWithPlan(lines)

NextTaskStatus ==
    \/ \E id \in PlanTrackIds : ParsePlanCall(id)
    \/ \E id \in PlanTrackIds, d \in TaskDescriptions, s \in Statuses :
          UpdateTaskStatus(id, d, s)

\* update_task_status and parse_plan on the shorter plans
SpecTaskStatus == InitTaskStatus /\ [][NextTaskStatus]_vars

\* "Login page"
LoginPage == <<"L","o","g","i","n"," ","p","a","g","e">>

\* the project after init_conductor_structure,
\* create_track("Login", SpecContent, <Phase 1, task Login, task Deploy>)
\* and create_track("Login page", SpecContent, PlanContent)
InitLifecycle ==
    /\ conductor_dir = TRUE
    /\ code_styleguides = TRUE
    /\ state_file = [exists |-> TRUE, last_successful_step |-> ""]
    /\ tracks_file =
          AddTrackToRegistry(
              AddTrackToRegistry(File(HeaderText \o <<"\n">>), Track001,
                                 <<"L","o","g","i","n">>),
              TrackPrefix \o Pad3(2), LoginPage)
    /\ tracks_dir =
          WithTrack(
              WithTrack([exists |-> TRUE, entries |-> NoEntries], Track001,
                        <<"L","o","g","i","n">>, SpecContent,
                        PlanText(<<LinePhase1, LineTaskLogin,
                                   LineTaskDeploy>>)),
              TrackPrefix \o Pad3(2), LoginPage, SpecContent, PlanContent)
    /\ last = NoCall
    /\ created = <<[id |-> Track001, description |-> <<"L","o","g","i","n">>],
                   [id |-> TrackPrefix \o Pad3(2), description |-> LoginPage]>>
       /\ NoProcess

NextLifecycle ==
    \/ ParseTracksCall
    \/ \E id \in TrackIds, s \in Statuses : UpdateTrackStatus(id, s)
    \/ \E id \in PlanTrackIds, d \in TaskDescriptions, s \in Statuses :
          UpdateTaskStatus(id, d, s)

\* track statuses and task statuses updated in any order on two tracks
SpecLifecycle == InitLifecycle /\ [][NextLifecycle]_vars

(***************************************************************************)
(* Two processes on one registry                                           *)
(***************************************************************************)
\* create_track and update_track_status as the file system sees them: one
\* step for each access to conductor/tracks or tracks.md, the steps of the
\* two processes in any order.  The project is initialized, so
\* conductor/tracks and tracks.md exist and mkdir cannot fail.
\* A description is passed to create_track once, and update_track_status
\* is called for a track until one call has written its status.
RaceDescriptions == {<<"L","o","g","i","n">>, LoginPage}

RaceTrackIds == {TrackPrefix \o Pad3(n) : n \in 1..2}

RaceStatuses == {"in_progress", "completed"}

\* a call of process p starts: it overlaps when the other process is inside
\* a call
Starts(p) ==
    /\ procs[p].pc = "idle"
    /\ overlapped' = (overlapped \/ \E q \in Procs \ {p} :
                                        procs[q].pc # "idle")

\* create_track, line 139: track_id = self.get_next_track_id()
CreateAllocate(p, description) ==
    /\ Starts(p)
    /\ Len(created) + Cardinality({q \in Procs : procs[q].description # <<>>})
          < MaxTracks
    /\ \A k \in 1..Len(created) : created[k].description # description
    /\ \A q \in Procs : procs[q].description # description
    /\ procs' = [procs EXCEPT ![p] =
                    [Idle EXCEPT !.pc = "create_mkdir",
                                 !.track_id = GetNextTrackId(tracks_dir),
                                 !.description = description]]
    /\ UNCHANGED <<conductor_dir, code_styleguides, state_file, tracks_file,
                   tracks_dir, last, created, expected>>

\* create_track, lines 140-154: mkdir(exist_ok=True), metadata.json,
\* spec.md, plan.md
CreateFiles(p) ==
    /\ procs[p].pc = "create_mkdir"
    /\ tracks_dir' = WithTrack(tracks_dir, procs[p].track_id,
                               procs[p].description, SpecContent, PlanContent)
    /\ procs' = [procs EXCEPT ![p].pc = "create_read"]
    /\ UNCHANGED <<conductor_dir, code_styleguides, state_file, tracks_file,
                   last, created, overlapped, expected>>

\* add_track_to_registry, lines 165-166: exists() and read_text()
CreateRead(p) ==
    /\ procs[p].pc = "create_read"
    /\ procs' = [procs EXCEPT ![p].pc = "create_write",
                              ![p].content = tracks_file]
    /\ UNCHANGED <<conductor_dir, code_styleguides, state_file, tracks_file,
                   tracks_dir, last, created, overlapped, expected>>

\* add_track_to_registry, line 167 (or 169): write_text of what was read
\* plus the entry; create_track returns the id
CreateWrite(p) ==
    /\ procs[p].pc = "create_write"
    /\ tracks_file' = AddTrackToRegistry(procs[p].content, procs[p].track_id,
                                         procs[p].description)
    /\ created' = Append(created, [id |-> procs[p].track_id,
                                   description |-> procs[p].description])
    /\ last' = Call("create_track", <<>>, procs[p].description, "", None,
                    procs[p].track_id, "", TRUE)
    /\ procs' = [procs EXCEPT ![p] = Idle]
    /\ UNCHANGED <<conductor_dir, code_styleguides, state_file, tracks_dir,
                   overlapped, expected>>

\* update_track_status, line 234: content = self.tracks_file.read_text()
UpdateRead(p, track_id, new_status) ==
    /\ Starts(p)
    /\ track_id \notin DOMAIN expected
    /\ \A q \in Procs : ~( /\ procs[q].pc \in {"update_lookup", "update_write"}
                            /\ procs[q].track_id = track_id )
    /\ IF ~tracks_file.exists
       THEN /\ last' = Call("update_track_status", track_id, <<>>,
                            new_status, None, None, "FileNotFoundError",
                            FALSE)
            /\ UNCHANGED procs
       ELSE /\ procs' = [procs EXCEPT ![p] =
                            [Idle EXCEPT !.pc = "update_lookup",
                                         !.track_id = track_id,
                                         !.new_status = new_status,
                                         !.content = tracks_file]]
            /\ UNCHANGED last
    /\ UNCHANGED <<conductor_dir, code_styleguides, state_file, tracks_file,
                   tracks_dir, created, expected>>

\* update_track_status, lines 237-241: get_track_by_id reads tracks.md
\* again; the call returns when it finds no track
UpdateLookup(p) ==
    LET found == GetTrackById(tracks_file, procs[p].track_id)
    IN  /\ procs[p].pc = "update_lookup"
        /\ IF found = None
           THEN /\ last' = Call("update_track_status", procs[p].track_id,
                                <<>>, procs[p].new_status, found, None, "",
                                FALSE)
                /\ procs' = [procs EXCEPT ![p] = Idle]
           ELSE /\ procs' = [procs EXCEPT ![p].pc = "update_write",
                                          ![p].found = found]
                /\ UNCHANGED last
        /\ UNCHANGED <<conductor_dir, code_styleguides, state_file,
                       tracks_file, tracks_dir, created, overlapped,
                       expected>>

\* update_track_status, lines 244-248: re.sub on the text read at line 234,
\* then write_text
UpdateWrite(p) ==
    LET description == procs[p].found[1].description
        new_heading == <<"#","#"," ","[",
                         MarkerOfStatus(procs[p].new_status), "]"," ">>
                       \o TrackKeyword \o <<" ">> \o description
        result      == ReSub(procs[p].content.text, HeadingLead,
                             TrackKeyword, description, new_heading)
    IN  /\ procs[p].pc = "update_write"
        /\ procs' = [procs EXCEPT ![p] = Idle]
        /\ IF ~result.ok
           THEN /\ last' = Call("update_track_status", procs[p].track_id,
                                <<>>, procs[p].new_status, procs[p].found,
                                None, "re.error", FALSE)
                /\ UNCHANGED <<tracks_file, expected>>
           ELSE /\ tracks_file' = File(result.text)
                /\ expected' =
                      [id \in DOMAIN expected \cup {procs[p].track_id} |->
                          IF id = procs[p].track_id
                          THEN procs[p].new_status ELSE expected[id]]
                /\ last' = Call("update_track_status", procs[p].track_id,
                                <<>>, procs[p].new_status, procs[p].found,
                                None, "", TRUE)
        /\ UNCHANGED <<conductor_dir, code_styleguides, state_file,
                       tracks_dir, created, overlapped>>

\* the project after init_conductor_structure
InitRace ==
    /\ conductor_dir = TRUE
    /\ code_styleguides = TRUE
    /\ state_file = [exists |-> TRUE, last_successful_step |-> ""]
    /\ tracks_file = File(HeaderText \o <<"\n">>)
    /\ tracks_dir = [exists |-> TRUE, entries |-> NoEntries]
    /\ last = NoCall
    /\ created = <<>>
    /\ NoProcess

NextRace ==
    \/ \E p \in Procs, d \in RaceDescriptions : CreateAllocate(p, d)
    \/ \E p \in Procs : CreateFiles(p)
    \/ \E p \in Procs : CreateRead(p)
    \/ \E p \in Procs : CreateWrite(p)
    \/ \E p \in Procs, id \in RaceTrackIds, s \in RaceStatuses :
          UpdateRead(p, id, s)
    \/ \E p \in Procs : UpdateLookup(p)
    \/ \E p \in Procs : UpdateWrite(p)

\* two processes calling create_track and update_track_status, with
\* pairwise distinct descriptions
SpecRace == InitRace /\ [][NextRace]_vars

(***************************************************************************)
(* Properties                                                              *)
(***************************************************************************)
\* "track-001", "track-002", ... written out
ExpectedIds ==
    << <<"t","r","a","c","k","-","0","0","1">>,
       <<"t","r","a","c","k","-","0","0","2">>,
       <<"t","r","a","c","k","-","0","0","3">>,
       <<"t","r","a","c","k","-","0","0","4">> >>

\* C1: after N create_track calls on an initialized project, parse_tracks
\* returns exactly N records, in creation order, the k-th with id track-00k
\* and with the description passed to the k-th create_track.
C1_RoundTrip ==
    last.op = "parse_tracks" =>
        /\ Len(last.ret) = Len(created)
        /\ \A k \in 1..Len(created) :
              /\ k <= Len(last.ret)
              /\ created[k].id = ExpectedIds[k]
              /\ last.ret[k].id = ExpectedIds[k]
              /\ last.ret[k].description = created[k].description

\* C2: update_track_status(id, new_status) on an id that parse_tracks
\* returns, followed by parse_tracks, shows that track with status
\* new_status and with its id and description unchanged, whatever the
\* status was before.
C2_StatusShown ==
    (last.op = "update_track_status" /\ last.found # None) =>
        /\ last.raised = ""
        /\ LET after == GetTrackById(tracks_file, last.track_id)
           IN  /\ after # None
               /\ after[1].status = last.new_status
               /\ after[1].description = last.found[1].description

\* C3: update_track_status with an id that parse_tracks does not return,
\* tracks.md absent included, writes nothing and raises nothing.
C3_MissIsSilent ==
    (last.op = "update_track_status" /\ last.found = None) =>
        /\ last.raised = ""
        /\ ~last.wrote

\* C4: a second update_track_status(id, s) right after a first one with the
\* same arguments leaves tracks.md as the first call left it.
C4_Idempotent ==
    [][ ( /\ last.op = "update_track_status"
          /\ last'.op = "update_track_status"
          /\ last'.track_id = last.track_id
          /\ last'.new_status = last.new_status )
        => tracks_file' = tracks_file ]_vars

\* C6: create_track on a project without a conductor directory returns
\* track-001, and parse_tracks then returns exactly one track: track-001,
\* with that description, pending.
C6_CreateWithoutInit ==
    (last.op = "create_track" /\ ~conductor_dir) =>
        /\ last.raised = ""
        /\ last.ret = ExpectedIds[1]
        /\ LET tracks == ParseTracks(tracks_file)
           IN  /\ Len(tracks) = 1
               /\ tracks[1].id = ExpectedIds[1]
               /\ tracks[1].description = last.text
               /\ tracks[1].status = "pending"

\* C7: get_next_pending_track returns None when the registry has no track
\* or only completed tracks; otherwise it returns the earliest track of the
\* document whose status is not completed, the tracks of the document being
\* in creation order.
C7_NextPendingTrack ==
    last.op = "get_next_pending_track" =>
        LET tracks == ParseTracks(tracks_file)
            open   == {k \in 1..Len(tracks) : tracks[k].status # "completed"}
        IN  /\ (last.ret = None) <=> (open = {})
            /\ open # {} =>
                  /\ last.ret = Some(tracks[Min(open)])
                  /\ \A k \in open :
                        ParseInt(From(last.ret[1].id, 7))
                            <= ParseInt(From(tracks[k].id, 7))

\* C7 witness: the first track is pending, the second in progress, and the
\* pending one is returned
C7_Witness ==
    /\ last.op = "get_next_pending_track"
    /\ LET tracks == ParseTracks(tracks_file)
       IN  /\ Len(tracks) = 2
           /\ tracks[1].status = "pending"
           /\ tracks[2].status = "in_progress"
           /\ last.ret = Some(tracks[1])

\* the directory name holds "track-" followed by digits, at the first place
\* where it does the digits are those of k, possibly after zeros
HasTrackNumber(name, k) ==
    \E i \in 1..Len(name), zeros \in 0..Len(name) :
        LET digits == [z \in 1..zeros |-> "0"] \o Decimal(k)
            after  == i + Len(TrackPrefix) + Len(digits)
        IN  /\ StartsWith(name, TrackPrefix \o digits, i)
            /\ after > Len(name) \/ ~IsDigit(name[after])
            /\ \A j \in 1..(i - 1) :
                  ~( /\ StartsWith(name, TrackPrefix, j)
                     /\ j + Len(TrackPrefix) <= Len(name)
                     /\ IsDigit(name[j + Len(TrackPrefix)]) )

\* C5: get_next_track_id returns track-001 when the tracks directory is
\* absent or no subdirectory has a name with track-<digits> in it; otherwise
\* track-(max+1), at least three digits, max being the largest of those
\* numbers, so that gaps stay unfilled; the ids create_track returns one
\* after the other are strictly increasing.
C5_NextTrackId ==
    LET names   == {n \in DOMAIN tracks_dir.entries :
                       tracks_dir.entries[n].is_dir}
        numbers == {k \in 0..200 : \E n \in names : HasTrackNumber(n, k)}
        digits  == From(last.ret, Len(TrackPrefix) + 1)
    IN  /\ last.op = "get_next_track_id" =>
              IF ~tracks_dir.exists \/ numbers = {}
              THEN last.ret = ExpectedIds[1]
              ELSE /\ StartsWith(last.ret, TrackPrefix, 1)
                   /\ Len(digits) >= 3
                   /\ Len(digits) > 3 => digits[1] # "0"
                   /\ \A j \in 1..Len(digits) : IsDigit(digits[j])
                   /\ \A k \in numbers : k < ParseInt(digits)
                   /\ ParseInt(digits) - 1 \in numbers
        /\ \A i, j \in 1..Len(created) :
              i < j => ParseInt(From(created[i].id, Len(TrackPrefix) + 1))
                          < ParseInt(From(created[j].id, Len(TrackPrefix) + 1))

\* C5 witness: with the directories track-001 and track-003,
\* get_next_track_id has returned track-004
C5_Witness ==
    /\ last.op = "get_next_track_id"
    /\ {n \in DOMAIN tracks_dir.entries : tracks_dir.entries[n].is_dir}
          = {ExpectedIds[1], ExpectedIds[3]}
    /\ last.ret = ExpectedIds[4]

\* What each line of PlanLines is, read off the plan grammar by hand: its
\* kind, its text (phase name or description) and its status.
LineFact(line) ==
    CASE line = LinePhase1 ->
            [kind |-> "phase", text |-> <<"P","h","a","s","e"," ","1">>,
             status |-> ""]
      [] line = LinePhase2 ->
            [kind |-> "phase", text |-> <<"P","h","a","s","e"," ","2">>,
             status |-> ""]
      [] line = LineTaskLogin ->
            [kind |-> "task", text |-> <<"L","o","g","i","n">>,
             status |-> "pending"]
      [] line = LineTaskLoginPage ->
            [kind |-> "task", text |-> <<"L","o","g","i","n"," ","p","a","g","e">>,
             status |-> "completed"]
      [] line = LineTaskDeploy ->
            [kind |-> "task", text |-> <<"D","e","p","l","o","y">>,
             status |-> "in_progress"]
      [] line = LineSubtask ->
            [kind |-> "subtask",
             text |-> <<"W","r","i","t","e"," ","t","e","s","t","s">>,
             status |-> "pending"]
      [] OTHER ->
            [kind |-> "other", text |-> <<>>, status |-> ""]

\* the facts of the lines of the plan.md of track_id, in file order
PlanFacts(track_id) ==
    LET plan_file == PlanFile(tracks_dir, track_id)
        lines     == Split(plan_file.text, <<"\n">>)
    IN  IF ~plan_file.exists THEN <<>>
        ELSE [k \in 1..Len(lines) |-> LineFact(lines[k])]

\* the indices of the lines of that kind
LinesOfKind(facts, kind) == {k \in 1..Len(facts) : facts[k].kind = kind}

\* the position of k among the elements of S
Rank(S, k) == Cardinality({j \in S : j <= k})

\* the greatest element of a non-empty set of integers
Max(S) == CHOOSE x \in S : \A y \in S : y <= x

\* C8: parse_plan returns one record per task line, in file order; the
\* phase of a task is the text of the last '## ' heading above it, None if
\* there is none; a line of four spaces and '- [<marker>] <description>' is
\* a subtask of the last task above it, and is dropped if there is none.
C8_ParsePlan ==
    last.op = "parse_plan" =>
        LET facts    == PlanFacts(last.track_id)
            tasks    == LinesOfKind(facts, "task")
            phases   == LinesOfKind(facts, "phase")
            subtasks == LinesOfKind(facts, "subtask")
            Above(S, k) == {j \in S : j < k}
            Under(k) == {j \in subtasks :
                            /\ Above(tasks, j) # {}
                            /\ Max(Above(tasks, j)) = k}
        IN  /\ Len(last.ret) = Cardinality(tasks)
            /\ \A k \in tasks :
                  LET t == last.ret[Rank(tasks, k)]
                  IN  /\ t.task = facts[k].text
                      /\ t.status = facts[k].status
                      /\ t.phase = IF Above(phases, k) = {} THEN None
                                   ELSE Some(facts[Max(Above(phases, k))].text)
                      /\ Len(t.subtasks) = Cardinality(Under(k))
                      /\ \A j \in Under(k) :
                            LET u == t.subtasks[Rank(Under(k), j)]
                            IN  /\ u.subtask = facts[j].text
                                /\ u.status = facts[j].status

\* C8 witness: a heading, two task lines and a subtask line under the
\* second: two tasks with the same phase, the second with one subtask
C8_Witness ==
    /\ last.op = "parse_plan"
    /\ PlanFile(tracks_dir, last.track_id)
          = File(PlanText(<<LinePhase1, LineTaskLogin, LineTaskLoginPage,
                            LineSubtask>>))
    /\ Len(last.ret) = 2
    /\ last.ret[1].phase = Some(<<"P","h","a","s","e"," ","1">>)
    /\ last.ret[2].phase = last.ret[1].phase
    /\ last.ret[1].subtasks = <<>>
    /\ Len(last.ret[2].subtasks) = 1

\* C9: get_next_pending_task returns the first task of the plan whose own
\* status is not completed, None when every task is completed or there is
\* no plan; the statuses of the subtasks play no part.
C9_NextPendingTask ==
    last.op = "get_next_pending_task" =>
        LET facts == PlanFacts(last.track_id)
            tasks == LinesOfKind(facts, "task")
            open  == {k \in tasks : facts[k].status # "completed"}
        IN  /\ (last.ret = None) <=> (open = {})
            /\ open # {} =>
                  /\ last.ret[1].task = facts[Min(open)].text
                  /\ last.ret[1].status = facts[Min(open)].status
                  /\ last.ret[1]
                        = ParsePlan(tracks_dir, last.track_id)[Rank(tasks, Min(open))]

\* C9 witness: a completed task with a pending subtask comes first and is
\* skipped; the task in progress after it is returned
C9_Witness ==
    /\ last.op = "get_next_pending_task"
    /\ PlanFile(tracks_dir, last.track_id)
          = File(PlanText(<<LineTaskLoginPage, LineSubtask, LineTaskDeploy>>))
    /\ last.ret # None
    /\ last.ret[1].task = <<"D","e","p","l","o","y">>
    /\ last.ret[1].status = "in_progress"

\* C10: update_task_status on a miss (no plan.md, or no task of plan.md with
\* that description) raises nothing, leaves plan.md as it was and creates
\* no plan.md.
C10_TaskMissIsSilent ==
    [][ (last'.op = "update_task_status" /\ last'.found = None)
        => (tracks_dir' = tracks_dir /\ last'.raised = "") ]_vars

\* C11: no automatic status transition.  update_task_status never changes
\* tracks.md, so the tracks parse_tracks returns, their statuses included,
\* are after the call what they were before it, even when the call leaves
\* every task of the plan completed; update_track_status never changes a
\* plan.md (nor anything else under conductor/tracks).
C11_NoAutomaticTransition ==
    [][ /\ last'.op = "update_task_status"
              => /\ tracks_file' = tracks_file
                 /\ ParseTracks(tracks_file') = ParseTracks(tracks_file)
        /\ last'.op = "update_track_status" => tracks_dir' = tracks_dir ]_vars

\* C11 witness: update_task_status has just completed the last open task of
\* track-001, whose plan.md it rewrote, and parse_tracks still shows the
\* track as in_progress, the status update_track_status gave it
C11_Witness ==
    /\ last.op = "update_task_status"
    /\ last.track_id = Track001
    /\ last.new_status = "completed"
    /\ last.found # None
    /\ last.found[1].status # "completed"
    /\ LET tasks == ParsePlan(tracks_dir, Track001)
       IN  /\ Len(tasks) = 2
           /\ \A k \in 1..Len(tasks) : tasks[k].status = "completed"
    /\ GetTrackById(tracks_file, Track001) # None
    /\ GetTrackById(tracks_file, Track001)[1].status = "in_progress"

\* C13: in a registry built by create_track with pairwise distinct
\* descriptions, update_track_status(id, s) leaves every other track that
\* parse_tracks returned before the call in the result of parse_tracks
\* after it, with the same id, description, status and folder.
C13_OtherTracksKept ==
    [][ ( /\ last'.op = "update_track_status"
          /\ \A i, j \in 1..Len(created) :
                i # j => created[i].description # created[j].description )
        => LET before == ParseTracks(tracks_file)
               after  == ParseTracks(tracks_file')
           IN  \A k \in 1..Len(before) :
                  before[k].id # last'.track_id
                     => \E j \in 1..Len(after) : after[j] = before[k] ]_vars

\* C14: in a plan whose task descriptions are pairwise distinct,
\* update_task_status(track_id, d, s) on a task that parse_plan returns
\* gives the task described exactly by d the status s and leaves every
\* other task as parse_plan returned it: status, description, phase and
\* subtasks.
C14_OtherTasksKept ==
    [][ LET before == ParsePlan(tracks_dir, last'.track_id)
            after  == ParsePlan(tracks_dir', last'.track_id)
        IN  ( /\ last'.op = "update_task_status"
              /\ last'.found # None
              /\ \A i, j \in 1..Len(before) :
                    i # j => before[i].task # before[j].task )
            => /\ Len(after) = Len(before)
               /\ \A k \in 1..Len(before) :
                     after[k] = IF before[k].task = last'.text
                                THEN [before[k] EXCEPT
                                         !.status = last'.new_status]
                                ELSE before[k] ]_vars

\* C12 (serialized half): as long as no call has started while a call of
\* the other process was running, every track create_track returned an id
\* for is among the tracks parse_tracks returns, and every status set by a
\* completed update_track_status is the one parse_tracks shows.
C12_SerializedKeepsUpdates ==
    ~overlapped =>
        /\ \A k \in 1..Len(created) :
              GetTrackById(tracks_file, created[k].id) # None
        /\ \A id \in DOMAIN expected :
              /\ GetTrackById(tracks_file, id) # None
              /\ GetTrackById(tracks_file, id)[1].status = expected[id]

\* C12 (interleaved half): both processes have returned, two create_track
\* calls returned track-001 and track-002, and tracks.md holds one track
\* only, the later write_text having discarded the entry of the earlier one
C12_LostTrack ==
    /\ \A p \in Procs : procs[p].pc = "idle"
    /\ Len(created) = 2
    /\ created[1].id # created[2].id
    /\ Len(ParseTracks(tracks_file)) = 1

\* C12 (interleaved half): both processes have returned, the only calls
\* of update_track_status set track-001 and track-002 to completed, and
\* parse_tracks shows one of the two as pending
C12_LostStatus ==
    /\ \A p \in Procs : procs[p].pc = "idle"
    /\ DOMAIN expected = RaceTrackIds
    /\ \A id \in RaceTrackIds : expected[id] = "completed"
    /\ Len(ParseTracks(tracks_file)) = 2
    /\ \E k \in 1..2 : ParseTracks(tracks_file)[k].status = "pending"

====
